---------------------------- MODULE Spec2Model ----------------------------
(***************************************************************************)
(* A model of quantcalculator.py: the two validators and the four          *)
(* computations (simple moving average, returns, volatility, Sharpe        *)
(* ratio), as operators computed the way the Python code computes them,    *)
(* and a caller that holds one argument object and calls the public        *)
(* functions on it in any order.                                           *)
(*                                                                         *)
(* Python values are records [t, n, d]:                                    *)
(*   t = "int" / "bool"   the integer n (d = 1); Python ints are unbounded *)
(*   t = "float", d > 0   the finite float n/d (in lowest terms)           *)
(*   t = "float", d = 0   nan (n = 0), inf (n = 1), -inf (n = -1)          *)
(*   t = "str"            an object that is neither int nor float          *)
(*   t = "none"           None / no argument                               *)
(*   t = "OverflowError"  the evaluation raised OverflowError              *)
(* Finite floats are exact rationals of magnitude at most FMAX (the        *)
(* largest finite double, scaled down): rounding error of + - / is not     *)
(* modelled, overflow is.  math.sqrt rounds to the nearest multiple of     *)
(* 1/SqrtPrec.                                                             *)
(***************************************************************************)
EXTENDS Integers, Sequences, FiniteSets, TLC

\* Bounds of the model.
MaxLen == 4
FMAX == 100
SqrtPrec == 16

\* round(average, 6)
NDIGITS == 6

VARIABLES x, arg, call, result, memo

vars == <<x, arg, call, result, memo>>

---------------------------------------------------------------------------
\* Python values

PyInt(k) == [t |-> "int", n |-> k, d |-> 1]

PyBool(k) == [t |-> "bool", n |-> k, d |-> 1]

PyFloat(k) == [t |-> "float", n |-> k, d |-> 1]

NaN == [t |-> "float", n |-> 0, d |-> 0]

Inf == [t |-> "float", n |-> 1, d |-> 0]

NegInf == [t |-> "float", n |-> -1, d |-> 0]

Str == [t |-> "str", n |-> 0, d |-> 1]

None == [t |-> "none", n |-> 0, d |-> 1]

Overflow == [t |-> "OverflowError", n |-> 0, d |-> 0]

Abs(k) == IF k < 0 THEN -k ELSE k

RECURSIVE GCD(_, _)
GCD(a, b) == IF b = 0 THEN a ELSE GCD(b, a % b)

\* The float n/d (d # 0) in lowest terms, with a positive denominator.
Rat(n, d) ==
    LET g == GCD(Abs(n), Abs(d))
        s == IF d < 0 THEN -1 ELSE 1
    IN  [t |-> "float", n |-> (s * n) \div g, d |-> (s * d) \div g]

\* isinstance(v, int): bool is a subclass of int.
IsInstanceInt(v) == v.t \in {"int", "bool"}

\* isinstance(v, (int, float))
IsInstanceNum(v) == v.t \in {"int", "bool", "float"}

IsRaised(v) == v.t = "OverflowError"

IsNaN(v) == v.t = "float" /\ v.d = 0 /\ v.n = 0

IsInf(v) == v.t = "float" /\ v.d = 0 /\ v.n # 0

IsFiniteFloat(v) == v.t = "float" /\ v.d > 0

\* A finite result outside the float range becomes a signed infinity
\* (IEEE-754 overflow of + - / on doubles: no exception in Python).
ToRange(r) ==
    IF Abs(r.n) > FMAX * r.d THEN (IF r.n > 0 THEN Inf ELSE NegInf) ELSE r

\* float(v) for an int: "OverflowError: int too large to convert to float".
ToFloat(v) ==
    IF v.t = "float" THEN v
    ELSE IF Abs(v.n) > FMAX THEN Overflow
    ELSE PyFloat(v.n)

FNeg(a) == [a EXCEPT !.n = -a.n]

\* float + float
FAdd(a, b) ==
    IF IsNaN(a) \/ IsNaN(b) THEN NaN
    ELSE IF IsInf(a) /\ IsInf(b) THEN (IF a.n = b.n THEN a ELSE NaN)
    ELSE IF IsInf(a) THEN a
    ELSE IF IsInf(b) THEN b
    ELSE ToRange(Rat(a.n * b.d + b.n * a.d, a.d * b.d))

\* float / float, b # 0
FDiv(a, b) ==
    IF IsNaN(a) \/ IsNaN(b) THEN NaN
    ELSE IF IsInf(a) /\ IsInf(b) THEN NaN
    ELSE IF IsInf(a) THEN (IF (a.n > 0) = (b.n > 0) THEN Inf ELSE NegInf)
    ELSE IF IsInf(b) THEN PyFloat(0)
    ELSE ToRange(Rat(a.n * b.d, a.d * b.n))

\* a + b
Add(a, b) ==
    IF IsRaised(a) \/ IsRaised(b) THEN Overflow
    ELSE IF IsInstanceInt(a) /\ IsInstanceInt(b) THEN PyInt(a.n + b.n)
    ELSE IF IsRaised(ToFloat(a)) \/ IsRaised(ToFloat(b)) THEN Overflow
    ELSE FAdd(ToFloat(a), ToFloat(b))

\* a - b
Sub(a, b) ==
    IF IsRaised(a) \/ IsRaised(b) THEN Overflow
    ELSE IF IsInstanceInt(a) /\ IsInstanceInt(b) THEN PyInt(a.n - b.n)
    ELSE IF IsRaised(ToFloat(a)) \/ IsRaised(ToFloat(b)) THEN Overflow
    ELSE FAdd(ToFloat(a), FNeg(ToFloat(b)))

\* a / b (true division), b # 0.  int / int is the exact quotient, and
\* raises "OverflowError: integer division result too large for a float".
TrueDiv(a, b) ==
    IF IsRaised(a) \/ IsRaised(b) THEN Overflow
    ELSE IF IsInstanceInt(a) /\ IsInstanceInt(b)
         THEN (IF Abs(a.n) > FMAX * Abs(b.n) THEN Overflow ELSE Rat(a.n, b.n))
    ELSE IF IsRaised(ToFloat(a)) \/ IsRaised(ToFloat(b)) THEN Overflow
    ELSE FDiv(ToFloat(a), ToFloat(b))

\* a ** 2 for a float: "OverflowError: (34, 'Numerical result out of range')"
\* when a finite operand gives a result outside the float range.
PowSq(a) ==
    IF IsRaised(a) THEN Overflow
    ELSE IF IsNaN(a) THEN NaN
    ELSE IF IsInf(a) THEN Inf
    ELSE IF a.n * a.n > FMAX * a.d * a.d THEN Overflow
    ELSE Rat(a.n * a.n, a.d * a.d)

\* math.sqrt(a) for a float a >= 0: the multiple of 1/SqrtPrec nearest to
\* the root, i.e. the k with (k - 1/2)^2 <= SqrtPrec^2 * a < (k + 1/2)^2.
MathSqrt(a) ==
    IF IsRaised(a) THEN Overflow
    ELSE IF IsNaN(a) THEN NaN
    ELSE IF IsInf(a) THEN Inf
    ELSE LET m == 4 * SqrtPrec * SqrtPrec * a.n
             k == CHOOSE j \in 0 .. SqrtPrec * ((a.n \div a.d) + 1) :
                      /\ (j = 0 \/ (2 * j - 1) * (2 * j - 1) * a.d <= m)
                      /\ m < (2 * j + 1) * (2 * j + 1) * a.d
         IN  Rat(k, SqrtPrec)

\* n/d (d > 0) rounded to the nearest integer, ties to the even one.
RoundHalfEven(n, d) ==
    LET q == n \div d
        r == n % d
    IN  IF 2 * r < d THEN q
        ELSE IF 2 * r > d THEN q + 1
        ELSE IF q % 2 = 0 THEN q ELSE q + 1

\* round(a, ndigits) for a float
Round(a, ndigits) ==
    IF IsRaised(a) THEN Overflow
    ELSE IF ~IsFiniteFloat(a) THEN a
    ELSE Rat(RoundHalfEven(a.n * (10 ^ ndigits), a.d), 10 ^ ndigits)

\* math.copysign(float('inf'), a)
CopySignInf(a) == IF a.n < 0 THEN NegInf ELSE Inf

\* a == 0
IsZero(a) == a.d # 0 /\ a.n = 0

\* sum(s): 0 + s[1] + s[2] + ... from the left
RECURSIVE SumFrom(_, _, _)
SumFrom(acc, s, i) ==
    IF i > Len(s) THEN acc ELSE SumFrom(Add(acc, s[i]), s, i + 1)

Sum(s) == SumFrom(PyInt(0), s, 1)

\* prices[i:j] for 0 <= i <= j <= len(prices)
Slice(s, i, j) == SubSeq(s, i + 1, j)

---------------------------------------------------------------------------
\* Outcomes of a call

Return(v, b) ==
    [exc |-> "none", msg |-> "", idx |-> -1, val |-> v, branch |-> b]

Raise(e, m, i) ==
    [exc |-> e, msg |-> m, idx |-> i, val |-> <<>>, branch |-> "raise"]

---------------------------------------------------------------------------
\* The program.  An argument object is [list |-> BOOLEAN, items |-> Seq]:
\* a list, or another object (a tuple) with the same items.

\* A faulty validation loop that counts the elements from 1: it names the
\* position after the offending one.
RECURSIVE validate_prices_loop_from_one(_, _)
validate_prices_loop_from_one(items, i) ==
    IF i >= Len(items) THEN Return(<<>>, "end")
    ELSE LET price == items[i + 1] IN
         IF ~IsInstanceNum(price) THEN Raise("TypeError", "not numeric", i + 1)
         ELSE IF IsRaised(ToFloat(price)) THEN Raise("OverflowError", "", -1)
         ELSE IF IsNaN(price) \/ IsInf(price) THEN Raise("ValueError", "invalid", i + 1)
         ELSE validate_prices_loop_from_one(items, i + 1)

\* validate_prices, the loop "for i, price in enumerate(prices)" from index i
RECURSIVE validate_prices_loop(_, _)
validate_prices_loop(items, i) ==
    IF i >= Len(items) THEN Return(<<>>, "end")
    ELSE LET price == items[i + 1] IN
         IF ~IsInstanceNum(price) THEN Raise("TypeError", "not numeric", i)
         ELSE IF IsRaised(ToFloat(price)) THEN Raise("OverflowError", "", -1)
         ELSE IF IsNaN(price) \/ IsInf(price) THEN Raise("ValueError", "invalid", i)
         ELSE validate_prices_loop(items, i + 1)

validate_prices(prices) ==
    IF ~prices.list THEN Raise("TypeError", "not a list", -1)
    ELSE IF Len(prices.items) = 0 THEN Raise("ValueError", "empty", -1)
    ELSE validate_prices_loop(prices.items, 0)

\* A faulty validate_window_size that accepts a window of zero.
validate_window_size_accepting_zero(window_size, data_length) ==
    IF ~IsInstanceInt(window_size) THEN Raise("TypeError", "window not an integer", -1)
    ELSE IF window_size.n < 0 THEN Raise("ValueError", "window not positive", -1)
    ELSE IF window_size.n > data_length THEN Raise("ValueError", "window too large", -1)
    ELSE Return(<<>>, "end")

\* A faulty validate_window_size that never compares the window with the
\* data length.
validate_window_size_unbounded(window_size, data_length) ==
    IF ~IsInstanceInt(window_size) THEN Raise("TypeError", "window not an integer", -1)
    ELSE IF window_size.n <= 0 THEN Raise("ValueError", "window not positive", -1)
    ELSE Return(<<>>, "end")

validate_window_size(window_size, data_length) ==
    IF ~IsInstanceInt(window_size) THEN Raise("TypeError", "window not an integer", -1)
    ELSE IF window_size.n <= 0 THEN Raise("ValueError", "window not positive", -1)
    ELSE IF window_size.n > data_length THEN Raise("ValueError", "window too large", -1)
    ELSE Return(<<>>, "end")

\* simple_moving_average, the loop "for i in range(len(prices) - window_size + 1)"
\* from index i, with moving_averages as built so far
RECURSIVE sma_loop(_, _, _, _)
sma_loop(items, window_size, i, moving_averages) ==
    IF i >= Len(items) - window_size.n + 1 THEN Return(moving_averages, "loop")
    ELSE LET window == Slice(items, i, i + window_size.n)
             average == TrueDiv(Sum(window), window_size)
             rounded == Round(average, NDIGITS)
         IN  IF IsRaised(rounded) THEN Raise("OverflowError", "", -1)
             ELSE sma_loop(items, window_size, i + 1, Append(moving_averages, rounded))

simple_moving_average(prices, window_size) ==
    IF validate_prices(prices).exc # "none" THEN validate_prices(prices)
    ELSE IF validate_window_size(window_size, Len(prices.items)).exc # "none"
         THEN validate_window_size(window_size, Len(prices.items))
    ELSE IF Len(prices.items) < window_size.n THEN Return(<<>>, "defensive")
    ELSE sma_loop(prices.items, window_size, 0, <<>>)

\* calculate_returns, the loop "for i in range(1, len(prices))" from index i,
\* with returns as built so far
RECURSIVE returns_loop(_, _, _)
returns_loop(items, i, returns) ==
    IF i >= Len(items) THEN Return(returns, "loop")
    ELSE IF IsZero(items[i]) THEN Raise("ValueError", "previous price is zero", -1)
    ELSE LET ret == TrueDiv(Sub(items[i + 1], items[i]), items[i])
         IN  IF IsRaised(ret) THEN Raise("OverflowError", "", -1)
             ELSE returns_loop(items, i + 1, Append(returns, ret))

calculate_returns(prices) ==
    IF validate_prices(prices).exc # "none" THEN validate_prices(prices)
    ELSE IF Len(prices.items) < 2 THEN Return(<<>>, "short")
    ELSE returns_loop(prices.items, 1, <<>>)

\* volatility, its own loop "for i, ret in enumerate(returns)" from index i
RECURSIVE volatility_check_loop(_, _)
volatility_check_loop(items, i) ==
    IF i >= Len(items) THEN Return(<<>>, "end")
    ELSE LET ret == items[i + 1] IN
         IF ~IsInstanceNum(ret) THEN Raise("TypeError", "not numeric", i)
         ELSE IF IsRaised(ToFloat(ret)) THEN Raise("OverflowError", "", -1)
         ELSE IF IsNaN(ret) \/ IsInf(ret) THEN Raise("ValueError", "invalid", i)
         ELSE volatility_check_loop(items, i + 1)

\* [(r - mean_return) ** 2 for r in returns]
squared_diffs(items, mean_return) ==
    [i \in 1 .. Len(items) |-> PowSq(Sub(items[i], mean_return))]

\* the sample variance, lines 143-145
variance(items) ==
    LET mean_return == TrueDiv(Sum(items), PyInt(Len(items)))
    IN  TrueDiv(Sum(squared_diffs(items, mean_return)), PyInt(Len(items) - 1))

volatility(returns) ==
    IF ~returns.list THEN Raise("TypeError", "not a list", -1)
    ELSE IF Len(returns.items) = 0 THEN Raise("ValueError", "empty", -1)
    ELSE IF volatility_check_loop(returns.items, 0).exc # "none"
         THEN volatility_check_loop(returns.items, 0)
    ELSE IF Len(returns.items) = 1 THEN Return(<<PyFloat(0)>>, "single")
    ELSE LET root == MathSqrt(variance(returns.items))
         IN  IF IsRaised(root) THEN Raise("OverflowError", "", -1)
             ELSE Return(<<root>>, "sqrt")

\* sharpe_ratio, its own loop "for i, ret in enumerate(returns)" from index i
RECURSIVE sharpe_check_loop(_, _)
sharpe_check_loop(items, i) ==
    IF i >= Len(items) THEN Return(<<>>, "end")
    ELSE LET ret == items[i + 1] IN
         IF ~IsInstanceNum(ret) THEN Raise("TypeError", "not numeric", i)
         ELSE IF IsRaised(ToFloat(ret)) THEN Raise("OverflowError", "", -1)
         ELSE IF IsNaN(ret) \/ IsInf(ret) THEN Raise("ValueError", "invalid", i)
         ELSE sharpe_check_loop(items, i + 1)

\* sharpe_ratio after its validation, lines 182-193
sharpe_compute(returns, risk_free_rate) ==
    LET mean_return == TrueDiv(Sum(returns.items), PyInt(Len(returns.items)))
        excess_return == Sub(mean_return, risk_free_rate)
        vol == volatility(returns)
    IN  IF IsRaised(excess_return) THEN Raise("OverflowError", "", -1)
        ELSE IF vol.exc # "none" THEN vol
        ELSE IF IsZero(vol.val[1])
             THEN (IF IsZero(excess_return) THEN Return(<<PyFloat(0)>>, "zero")
                   ELSE Return(<<CopySignInf(excess_return)>>, "infinite"))
        ELSE Return(<<TrueDiv(excess_return, vol.val[1])>>, "ratio")

sharpe_ratio(returns, risk_free_rate) ==
    IF ~returns.list THEN Raise("TypeError", "not a list", -1)
    ELSE IF ~IsInstanceNum(risk_free_rate) THEN Raise("TypeError", "rate not numeric", -1)
    ELSE IF Len(returns.items) = 0 THEN Raise("ValueError", "empty", -1)
    ELSE IF IsRaised(ToFloat(risk_free_rate)) THEN Raise("OverflowError", "", -1)
    ELSE IF IsNaN(risk_free_rate) \/ IsInf(risk_free_rate)
         THEN Raise("ValueError", "rate invalid", -1)
    ELSE IF sharpe_check_loop(returns.items, 0).exc # "none"
         THEN sharpe_check_loop(returns.items, 0)
    ELSE sharpe_compute(returns, risk_free_rate)

---------------------------------------------------------------------------
\* The caller: it holds one argument object x and calls the public functions
\* on it; arg is the object as it was passed to the last call, call the last
\* call's function and other arguments, result its outcome.

\* A float above half the float range (such as 1e308): two of them add up
\* to more than the range holds.
Huge == (FMAX \div 2) + 10

\* Elements of an argument: ordinary ints; the int of largest magnitude that
\* still converts to float (such as -(2**1024 - 2**970 - 1)); an int beyond
\* the float range (such as 10**400); a huge float; non-finite floats; an
\* object that is not a number.
Elems ==
    {PyInt(0), PyInt(1), PyInt(-FMAX), PyInt(FMAX + 1), PyFloat(Huge),
     NaN, Inf, Str}

RECURSIVE SeqsUpTo(_, _)
SeqsUpTo(S, k) ==
    IF k = 0 THEN {<<>>}
    ELSE LET shorter == SeqsUpTo(S, k - 1)
         IN  shorter \cup {Append(s, e) : s \in shorter, e \in S}

Inputs ==
    {[list |-> TRUE, items |-> s] : s \in SeqsUpTo(Elems, MaxLen)}
        \cup {[list |-> FALSE, items |-> <<PyInt(1), PyInt(2)>>]}

Windows == {PyInt(k) : k \in -1 .. MaxLen + 1} \cup {PyBool(1), PyFloat(2)}

Rates == {PyInt(0), PyInt(1), PyInt(FMAX + 1), NaN, Inf, Str}

NoCall == [op |-> "none", w |-> None, dl |-> 0, rf |-> None]

NoResult == Return(<<>>, "none")

NoMemo == [call |-> NoCall, arg |-> [list |-> FALSE, items |-> <<>>], result |-> NoResult]

Init ==
    /\ x \in Inputs
    /\ arg = x
    /\ call = NoCall
    /\ result = NoResult
    /\ memo = NoMemo

Call_validate_prices ==
    /\ call.op = "none"
    /\ arg' = x
    /\ call' = [NoCall EXCEPT !.op = "validate_prices"]
    /\ result' = validate_prices(x)
    /\ UNCHANGED <<x, memo>>

Call_validate_window_size(w, dl) ==
    /\ call.op = "none"
    /\ arg' = x
    /\ call' = [NoCall EXCEPT !.op = "validate_window_size", !.w = w, !.dl = dl]
    /\ result' = validate_window_size(w, dl)
    /\ UNCHANGED <<x, memo>>

Call_simple_moving_average(w) ==
    /\ call.op = "none"
    /\ arg' = x
    /\ call' = [NoCall EXCEPT !.op = "simple_moving_average", !.w = w]
    /\ result' = simple_moving_average(x, w)
    /\ UNCHANGED <<x, memo>>

\* A faulty calculate_returns that consumes its argument: it pops the first
\* price off the caller's list.
Call_calculate_returns_popping ==
    /\ call.op = "none"
    /\ arg' = x
    /\ call' = [NoCall EXCEPT !.op = "calculate_returns"]
    /\ result' = calculate_returns(x)
    /\ x' = IF x.list /\ Len(x.items) >= 1
            THEN [x EXCEPT !.items = Tail(x.items)] ELSE x
    /\ UNCHANGED memo

Call_calculate_returns ==
    /\ call.op = "none"
    /\ arg' = x
    /\ call' = [NoCall EXCEPT !.op = "calculate_returns"]
    /\ result' = calculate_returns(x)
    /\ UNCHANGED <<x, memo>>

Call_volatility ==
    /\ call.op = "none"
    /\ arg' = x
    /\ call' = [NoCall EXCEPT !.op = "volatility"]
    /\ result' = volatility(x)
    /\ UNCHANGED <<x, memo>>

Call_sharpe_ratio(rf) ==
    /\ call.op = "none"
    /\ arg' = x
    /\ call' = [NoCall EXCEPT !.op = "sharpe_ratio", !.rf = rf]
    /\ result' = sharpe_ratio(x, rf)
    /\ UNCHANGED <<x, memo>>

Calls ==
    \/ Call_validate_prices
    \/ \E w \in Windows : Call_validate_window_size(w, Len(x.items))
    \/ \E w \in Windows : Call_simple_moving_average(w)
    \/ Call_calculate_returns
    \/ Call_volatility
    \/ \E rf \in Rates : Call_sharpe_ratio(rf)

\* The caller takes the outcome and is free to call again.
Finish ==
    /\ call.op # "none"
    /\ call' = NoCall
    /\ result' = NoResult
    /\ UNCHANGED <<x, arg, memo>>

\* A later caller remembers the call just made, to compare a repetition with.
Remember ==
    /\ call.op # "none"
    /\ memo' = [call |-> call, arg |-> arg, result |-> result]
    /\ UNCHANGED <<x, arg, call, result>>

Next == Calls \/ Finish

Spec == Init /\ [][Next]_vars

\* The same caller over ordinary arguments, remembering one earlier call.
PureElems == {PyInt(0), PyInt(1), NaN}

PureInputs ==
    {[list |-> TRUE, items |-> s] : s \in SeqsUpTo(PureElems, MaxLen)}

InitPure ==
    /\ x \in PureInputs
    /\ arg = x
    /\ call = NoCall
    /\ result = NoResult
    /\ memo = NoMemo

NextPure == Calls \/ Finish \/ Remember

SpecPure == InitPure /\ [][NextPure]_vars

---------------------------------------------------------------------------
\* Vocabulary of the claims: exact (real-number) arithmetic on finite
\* numbers, as rationals n/d, with no range and no rounding.

SeqOps ==
    {"validate_prices", "simple_moving_average", "calculate_returns",
     "volatility", "sharpe_ratio"}

FiniteNumber(v) == IsInstanceNum(v) /\ ~IsNaN(v) /\ ~IsInf(v)

NonFinite(v) == IsNaN(v) \/ IsInf(v)

\* A finite number that the validation accepts: a finite float, or an int
\* inside the float range.
Accepted(v) == FiniteNumber(v) /\ ~IsRaised(ToFloat(v))

\* A valid list: non-empty, every element a finite number that the
\* validation accepts.
ValidList(a) ==
    /\ a.list
    /\ Len(a.items) >= 1
    /\ \A i \in 1 .. Len(a.items) : Accepted(a.items[i])

QAdd(a, b) == Rat(a.n * b.d + b.n * a.d, a.d * b.d)

QSub(a, b) == Rat(a.n * b.d - b.n * a.d, a.d * b.d)

QMul(a, b) == Rat(a.n * b.n, a.d * b.d)

QDiv(a, b) == Rat(a.n * b.d, a.d * b.n)

RECURSIVE QSumFrom(_, _, _)
QSumFrom(acc, s, i) ==
    IF i > Len(s) THEN acc ELSE QSumFrom(QAdd(acc, s[i]), s, i + 1)

QSum(s) == QSumFrom(PyFloat(0), s, 1)

QMean(s) == QDiv(QSum(s), PyFloat(Len(s)))

\* q rounded to NDIGITS decimal places
QRounded(q) == Rat(RoundHalfEven(q.n * (10 ^ NDIGITS), q.d), 10 ^ NDIGITS)

\* sum of (r - mean)^2 over s, divided by Len(s) - 1
QSampleVariance(s) ==
    LET m == QMean(s)
        sq == [i \in 1 .. Len(s) |-> QMul(QSub(s[i], m), QSub(s[i], m))]
    IN  QDiv(QSum(sq), PyFloat(Len(s) - 1))

\* v is a non-negative float and the representable value nearest to the
\* square root of q: v^2 = q up to the rounding of the result.
IsRootOf(v, q) ==
    /\ IsFiniteFloat(v)
    /\ v.n >= 0
    /\ SqrtPrec % v.d = 0
    /\ LET k == v.n * (SqrtPrec \div v.d)
           m == 4 * SqrtPrec * SqrtPrec * q.n
       IN  /\ (k = 0 \/ (2 * k - 1) * (2 * k - 1) * q.d <= m)
           /\ m < (2 * k + 1) * (2 * k + 1) * q.d

\* The sum of the magnitudes of s.
RECURSIVE AbsSum(_, _)
AbsSum(s, i) ==
    IF i > Len(s) THEN PyFloat(0)
    ELSE QAdd([t |-> "float", n |-> Abs(s[i].n), d |-> s[i].d], AbsSum(s, i + 1))

\* Every element and every sum of elements of the list is inside the float
\* range: no addition or conversion overflows.
SumsInRange(a) ==
    /\ ValidList(a)
    /\ AbsSum(a.items, 1).n <= FMAX * AbsSum(a.items, 1).d

---------------------------------------------------------------------------
\* C1: for every valid price list P (non-empty, finite numbers) of length n
\* and every integer window w with 1 <= w <= n, simple_moving_average(P, w)
\* returns n - w + 1 elements, element i being the arithmetic mean of
\* P[i..i+w-1] rounded to 6 decimal places.
C1_SmaIsRoundedMeans ==
    (/\ call.op = "simple_moving_average"
     /\ ValidList(arg)
     /\ IsInstanceInt(call.w)
     /\ 1 <= call.w.n
     /\ call.w.n <= Len(arg.items))
    => /\ result.exc = "none"
       /\ Len(result.val) = Len(arg.items) - call.w.n + 1
       /\ \A i \in 0 .. Len(arg.items) - call.w.n :
              result.val[i + 1] = QRounded(QMean(Slice(arg.items, i, i + call.w.n)))

\* C1 fails on [1e308, 1e308] with window 2: the float sum overflows.
C1_FailingInput ==
    /\ call.op = "simple_moving_average"
    /\ arg = [list |-> TRUE, items |-> <<PyFloat(Huge), PyFloat(Huge)>>]
    /\ call.w = PyInt(2)
    /\ result = Return(<<Inf>>, "loop")

\* C1 where no sum leaves the float range: the statement of C1 holds.
C1_WithinRange ==
    (/\ call.op = "simple_moving_average"
     /\ SumsInRange(arg)
     /\ IsInstanceInt(call.w)
     /\ 1 <= call.w.n
     /\ call.w.n <= Len(arg.items))
    => /\ result.exc = "none"
       /\ Len(result.val) = Len(arg.items) - call.w.n + 1
       /\ \A i \in 0 .. Len(arg.items) - call.w.n :
              result.val[i + 1] = QRounded(QMean(Slice(arg.items, i, i + call.w.n)))

---------------------------------------------------------------------------
\* An element that the validation loops stop at: not a number, an int too
\* large to convert to float, or a non-finite float.
Offending(v) == ~IsInstanceNum(v) \/ IsRaised(ToFloat(v)) \/ NonFinite(v)

\* The 0-based index of the first offending element of s (Len(s) if none).
RECURSIVE FirstOffending(_, _)
FirstOffending(s, i) ==
    IF i >= Len(s) \/ Offending(s[i + 1]) THEN i ELSE FirstOffending(s, i + 1)

---------------------------------------------------------------------------
\* C3: validate_window_size raises TypeError when window_size is not an
\* integer, ValueError when it is an integer <= 0 or > data_length, and
\* returns without error exactly when 1 <= window_size <= data_length.
C3_WindowSizeRules ==
    call.op = "validate_window_size"
    => /\ ~IsInstanceInt(call.w) => result.exc = "TypeError"
       /\ (IsInstanceInt(call.w) /\ (call.w.n <= 0 \/ call.w.n > call.dl))
              => result.exc = "ValueError"
       /\ result.exc = "none"
              <=> (IsInstanceInt(call.w) /\ 1 <= call.w.n /\ call.w.n <= call.dl)

\* C3's case: a window equal to the data length was accepted.
C3_Witness ==
    /\ call.op = "validate_window_size"
    /\ call.w = PyInt(call.dl)
    /\ call.dl >= 1
    /\ result.exc = "none"

---------------------------------------------------------------------------
\* q as a float record is inside the float range.
QInRange(q) == Abs(q.n) <= FMAX * q.d

\* The exact sum of squared deviations from the mean.
QSquaredDeviations(s) == QMul(QSampleVariance(s), PyFloat(Len(s) - 1))

\* C4: for every valid returns list R and finite numeric risk_free_rate f,
\* with excess = mean(R) - f and vol = volatility(R), sharpe_ratio(R, f)
\* returns 0.0 when vol == 0 and excess == 0, infinity with the sign of
\* excess when vol == 0 and excess # 0, and excess / vol otherwise; it never
\* raises.
C4_SharpeDecisionTable ==
    (/\ call.op = "sharpe_ratio"
     /\ ValidList(arg)
     /\ Accepted(call.rf))
    => /\ result.exc = "none"
       /\ volatility(arg).exc = "none"
       /\ LET vol == volatility(arg).val[1]
              excess == QSub(QMean(arg.items), call.rf)
          IN  /\ (IsZero(vol) /\ IsZero(excess)) => result.val = <<PyFloat(0)>>
              /\ (IsZero(vol) /\ ~IsZero(excess))
                     => result.val = <<IF excess.n > 0 THEN Inf ELSE NegInf>>
              /\ (IsFiniteFloat(vol) /\ ~IsZero(vol))
                     => result.val = <<QDiv(excess, vol)>>

\* C4 fails on sharpe_ratio([1e308, 0], 0): the squared deviation overflows.
C4_FailingInput ==
    /\ call.op = "sharpe_ratio"
    /\ arg = [list |-> TRUE, items |-> <<PyFloat(Huge), PyInt(0)>>]
    /\ call.rf = PyInt(0)
    /\ result.exc = "OverflowError"

\* C4 where the sums, the squared deviations and the quotient stay inside
\* the float range: the statement of C4 holds.
C4_WithinRange ==
    (/\ call.op = "sharpe_ratio"
     /\ SumsInRange(arg)
     /\ Accepted(call.rf)
     /\ Len(arg.items) >= 2 => QInRange(QSquaredDeviations(arg.items)))
    => /\ result.exc = "none"
       /\ volatility(arg).exc = "none"
       /\ LET vol == volatility(arg).val[1]
              excess == QSub(QMean(arg.items), call.rf)
          IN  /\ (IsZero(vol) /\ IsZero(excess)) => result.val = <<PyFloat(0)>>
              /\ (IsZero(vol) /\ ~IsZero(excess))
                     => result.val = <<IF excess.n > 0 THEN Inf ELSE NegInf>>
              /\ (~IsZero(vol) /\ QInRange(excess) /\ QInRange(QDiv(excess, vol)))
                     => result.val = <<QDiv(excess, vol)>>

---------------------------------------------------------------------------
\* C5: for every valid price list P of length n >= 1 with none of
\* P[0..n-2] zero, calculate_returns(P) returns n - 1 elements, element
\* i-1 being (P[i] - P[i-1]) / P[i-1] unrounded; a single-element list
\* yields the empty list, the empty list raises ValueError.
C5_ReturnsAreRelativeChanges ==
    call.op = "calculate_returns"
    => /\ (arg.list /\ Len(arg.items) = 0) => result.exc = "ValueError"
       /\ (/\ ValidList(arg)
           /\ \A i \in 1 .. Len(arg.items) - 1 : ~IsZero(arg.items[i]))
          => /\ result.exc = "none"
             /\ Len(result.val) = Len(arg.items) - 1
             /\ \A i \in 1 .. Len(arg.items) - 1 :
                    result.val[i] =
                        QDiv(QSub(arg.items[i + 1], arg.items[i]), arg.items[i])

\* C5 fails on [1, -M] with M the largest int that converts to float: the
\* int division raises OverflowError.
C5_FailingInput ==
    /\ call.op = "calculate_returns"
    /\ arg = [list |-> TRUE, items |-> <<PyInt(1), PyInt(-FMAX)>>]
    /\ result.exc = "OverflowError"

\* C5 where the sums and the quotients stay inside the float range: the
\* statement of C5 holds.
C5_WithinRange ==
    call.op = "calculate_returns"
    => /\ (arg.list /\ Len(arg.items) = 0) => result.exc = "ValueError"
       /\ (/\ SumsInRange(arg)
           /\ \A i \in 1 .. Len(arg.items) - 1 :
                  /\ ~IsZero(arg.items[i])
                  /\ QInRange(QDiv(QSub(arg.items[i + 1], arg.items[i]), arg.items[i])))
          => /\ result.exc = "none"
             /\ Len(result.val) = Len(arg.items) - 1
             /\ \A i \in 1 .. Len(arg.items) - 1 :
                    result.val[i] =
                        QDiv(QSub(arg.items[i + 1], arg.items[i]), arg.items[i])

---------------------------------------------------------------------------
\* C6: for every valid price list P of length n >= 2, calculate_returns(P)
\* raises ValueError if and only if P[i-1] == 0 for some i in 1..n-1, and a
\* call that raises returns nothing.
C6_ValueErrorIffZeroPrevious ==
    (/\ call.op = "calculate_returns"
     /\ ValidList(arg)
     /\ Len(arg.items) >= 2)
    => /\ result.exc = "ValueError"
              <=> \E i \in 1 .. Len(arg.items) - 1 : IsZero(arg.items[i])
       /\ result.exc # "none" => result.val = <<>>

\* C6 fails on [1, -M, 0, 1] with M the largest int that converts to float:
\* OverflowError at i = 1, not ValueError, although P[2] == 0.
C6_FailingInput ==
    /\ call.op = "calculate_returns"
    /\ arg = [list |-> TRUE,
              items |-> <<PyInt(1), PyInt(-FMAX), PyInt(0), PyInt(1)>>]
    /\ result.exc = "OverflowError"

\* C6 where the sums and the quotients before the first zero stay inside
\* the float range: the statement of C6 holds.
C6_WithinRange ==
    (/\ call.op = "calculate_returns"
     /\ SumsInRange(arg)
     /\ Len(arg.items) >= 2
     /\ \A i \in 1 .. Len(arg.items) - 1 :
            IsZero(arg.items[i])
            \/ QInRange(QDiv(QSub(arg.items[i + 1], arg.items[i]), arg.items[i])))
    => /\ result.exc = "ValueError"
              <=> \E i \in 1 .. Len(arg.items) - 1 : IsZero(arg.items[i])
       /\ result.exc # "none" => result.val = <<>>

---------------------------------------------------------------------------
\* C7: for every valid returns list R of length n, volatility(R) returns
\* 0.0 when n == 1 and otherwise the non-negative square root of the sample
\* variance with divisor n - 1 (the square root as the float nearest to it).
C7_VolatilityIsSampleDeviation ==
    (/\ call.op = "volatility"
     /\ ValidList(arg))
    => /\ result.exc = "none"
       /\ Len(arg.items) = 1 => result.val = <<PyFloat(0)>>
       /\ Len(arg.items) >= 2
              => IsRootOf(result.val[1], QSampleVariance(arg.items))

\* C7 fails on volatility([1e308, 0]): the squared deviation overflows.
C7_FailingInput ==
    /\ call.op = "volatility"
    /\ arg = [list |-> TRUE, items |-> <<PyFloat(Huge), PyInt(0)>>]
    /\ result.exc = "OverflowError"

\* C7 where the sums and the squared deviations stay inside the float
\* range: the statement of C7 holds.
C7_WithinRange ==
    (/\ call.op = "volatility"
     /\ SumsInRange(arg)
     /\ Len(arg.items) >= 2 => QInRange(QSquaredDeviations(arg.items)))
    => /\ result.exc = "none"
       /\ Len(arg.items) = 1 => result.val = <<PyFloat(0)>>
       /\ Len(arg.items) >= 2
              => IsRootOf(result.val[1], QSampleVariance(arg.items))

---------------------------------------------------------------------------
\* C8: volatility validates its argument by the rules of validate_prices:
\* for every input, volatility raises if and only if validate_prices raises,
\* and then the same error kind for the same offending index.
C8_RaisesIffValidatePricesRaises ==
    call.op = "volatility"
    => /\ result.exc # "none" <=> validate_prices(arg).exc # "none"
       /\ validate_prices(arg).exc # "none"
              => /\ result.exc = validate_prices(arg).exc
                 /\ result.idx = validate_prices(arg).idx

\* C8 fails on [-M, 0] with M the largest int that converts to float:
\* validate_prices accepts it, volatility raises OverflowError (the overflow
\* of C7).
C8_FailingInput ==
    /\ call.op = "volatility"
    /\ arg = [list |-> TRUE, items |-> <<PyInt(-FMAX), PyInt(0)>>]
    /\ validate_prices(arg).exc = "none"
    /\ result.exc = "OverflowError"

\* C8 for the validation alone: what validate_prices raises, volatility
\* raises too (same kind, message and index), and what validate_prices
\* accepts, volatility does not reject with TypeError or ValueError.
C8_ValidationAgrees ==
    call.op = "volatility"
    => IF validate_prices(arg).exc # "none"
       THEN result = validate_prices(arg)
       ELSE result.exc \notin {"TypeError", "ValueError"}

---------------------------------------------------------------------------
C9_RepeatedSuccess ==
    /\ call.op = "simple_moving_average"
    /\ memo.call = call
    /\ memo.arg = arg
    /\ memo.result.exc = "none"
    /\ Len(memo.result.val) >= 2
    /\ result = memo.result

---------------------------------------------------------------------------
\* C10: in simple_moving_average the branch "if len(prices) < window_size:
\* return []" is never taken: control passes the two validations only when
\* both returned without raising, then len(prices) >= window_size >= 1, and
\* a call that returns returns a non-empty list.
C10_DefensiveBranchUnreachable ==
    call.op = "simple_moving_average"
    => /\ result.branch # "defensive"
       /\ result.branch = "loop"
              => /\ validate_prices(arg).exc = "none"
                 /\ IsInstanceInt(call.w)
                 /\ Len(arg.items) >= call.w.n
                 /\ call.w.n >= 1
       /\ result.exc = "none" => Len(result.val) >= 1

\* C10's case: the window equals the length of the list, the closest a
\* validated call comes to the branch, and one average was returned.
C10_Witness ==
    /\ call.op = "simple_moving_average"
    /\ Len(arg.items) >= 2
    /\ call.w = PyInt(Len(arg.items))
    /\ result.exc = "none"
    /\ result.branch = "loop"
    /\ Len(result.val) = 1

=============================================================================
